---- MODULE Spec2Model ----
(***************************************************************************)
(* A model of bsv_wallet.py: the WalletApp operations show_status,         *)
(* build_and_send and send_op_return, and NetworkProvider.get_price and    *)
(* NetworkProvider.broadcast, as one interactive session of the menu loop  *)
(* of main() on one loaded wallet.                                         *)
(*                                                                         *)
(* Text (user input, response bodies, transaction ids) is a sequence of    *)
(* one-character strings.  A Decimal is a record [neg, coeff, exp] whose   *)
(* value is (-1)^neg * coeff * 10^exp.  Python's None is the value None.   *)
(***************************************************************************)
EXTENDS Integers, Sequences, FiniteSets, TLC

(***************************************************************************)
(* Bounds of the model.                                                    *)
(***************************************************************************)
\* menu choices taken in one session
MaxOps == 2

(***************************************************************************)
(* Program constants.                                                      *)
(***************************************************************************)
\* getcontext().prec = 8
Prec == 8
\* the literal 100_000_000 (satoshis per BSV)
SatPerBsv == 100000000
\* fee_estimate = 500
fee_estimate == 500
\* if bal < 1000 (send_op_return)
MinDataBalance == 1000
\* len(txid) > 20
MinTxidLen == 20
\* len(TAAL_KEYS)
NumTaalKeys == 2
\* len(raw_hex)//2 * 0.5 : one satoshi per FeeRateDen bytes
FeeRateDen == 2

None == <<"None">>

(***************************************************************************)
(* Text helpers: str.lower, str.strip, str.replace('"', '').               *)
(***************************************************************************)
UpperChars == <<"A", "E", "L", "M", "N", "O", "S", "X", "Y">>
LowerChars == <<"a", "e", "l", "m", "n", "o", "s", "x", "y">>

LowerChar(c) ==
    IF \E i \in DOMAIN UpperChars : UpperChars[i] = c
    THEN LowerChars[CHOOSE i \in DOMAIN UpperChars : UpperChars[i] = c]
    ELSE c

Lower(s) == [i \in DOMAIN s |-> LowerChar(s[i])]

IsSpace(c) == c \in {" ", "\n"}

RECURSIVE LStrip(_)
LStrip(s) == IF s # <<>> /\ IsSpace(Head(s)) THEN LStrip(Tail(s)) ELSE s

RECURSIVE RStrip(_)
RStrip(s) ==
    IF s # <<>> /\ IsSpace(s[Len(s)]) THEN RStrip(SubSeq(s, 1, Len(s) - 1)) ELSE s

Strip(s) == RStrip(LStrip(s))

NotQuote(c) == c # "\""
RemoveQuotes(s) == SelectSeq(s, NotQuote)

Rep(c, n) == [i \in 1..n |-> c]

\* Python truthiness of an Optional[str]
Truthy(t) == t # None /\ t # <<>>

(***************************************************************************)
(* Decimal arithmetic under getcontext().prec = 8 (ROUND_HALF_EVEN).       *)
(***************************************************************************)
DigitChars == <<"0", "1", "2", "3", "4", "5", "6", "7", "8", "9">>
IsDigit(c) == \E i \in DOMAIN DigitChars : DigitChars[i] = c
DigitVal(c) == (CHOOSE i \in DOMAIN DigitChars : DigitChars[i] = c) - 1

RECURSIVE DigitsValue(_)
DigitsValue(ds) ==
    IF ds = <<>> THEN 0
    ELSE 10 * DigitsValue(SubSeq(ds, 1, Len(ds) - 1)) + DigitVal(ds[Len(ds)])

RECURSIVE NumDigits(_)
NumDigits(n) == IF n < 10 THEN 1 ELSE 1 + NumDigits(n \div 10)

IsDot(c) == c = "."
NotDot(c) == c # "."
IsDigitOrDot(c) == IsDigit(c) \/ IsDot(c)

\* Decimal(amount_str): [ok |-> FALSE] stands for decimal.InvalidOperation.
\* The accepted grammar is [sign] digits [. digits] with at least one digit;
\* the construction itself is exact (the context precision is not applied).
ParseDecimal(s) ==
    LET signed == s # <<>> /\ Head(s) \in {"-", "+"}
        body   == IF signed THEN Tail(s) ELSE s
        digits == SelectSeq(body, NotDot)
        dots   == SelectSeq(body, IsDot)
        dotPos == IF dots = <<>> THEN Len(body) + 1
                  ELSE CHOOSE i \in DOMAIN body : body[i] = "." /\
                         \A j \in 1..(i - 1) : body[j] # "."
        wellFormed == /\ digits # <<>>
                      /\ Len(dots) <= 1
                      /\ \A i \in DOMAIN body : IsDigitOrDot(body[i])
    IN  IF wellFormed
        THEN [ok |-> TRUE,
              neg |-> (signed /\ Head(s) = "-"),
              coeff |-> DigitsValue(digits),
              exp |-> 0 - (Len(body) + 1 - dotPos - (IF dots = <<>> THEN 0 ELSE 1))]
        ELSE [ok |-> FALSE, neg |-> FALSE, coeff |-> 0, exp |-> 0]

\* Decimal(int)
DecOfInt(n) == [ok |-> TRUE, neg |-> n < 0, coeff |-> IF n < 0 THEN 0 - n ELSE n, exp |-> 0]

\* round coeff * 10^exp to Prec significant digits, ties to even
RoundHalfEven(coeff, drop) ==
    LET unit == 10^drop
        q    == coeff \div unit
        r    == coeff % unit
    IN  IF 2 * r > unit \/ (2 * r = unit /\ q % 2 = 1) THEN q + 1 ELSE q

DecRound(d) ==
    LET n == NumDigits(d.coeff)
    IN  IF n <= Prec THEN d
        ELSE [d EXCEPT !.coeff = RoundHalfEven(d.coeff, n - Prec),
                       !.exp = d.exp + (n - Prec)]

\* drop trailing zeros of the coefficient (same value; keeps products small)
RECURSIVE DecNormalize(_)
DecNormalize(d) ==
    IF d.coeff # 0 /\ d.coeff % 10 = 0
    THEN DecNormalize([d EXCEPT !.coeff = d.coeff \div 10, !.exp = d.exp + 1])
    ELSE d

\* Decimal.__mul__: the exact product, then rounded to the context precision
DecMul(a, b) ==
    LET x == DecNormalize(a)
        y == DecNormalize(b)
    IN  DecRound([ok |-> TRUE, neg |-> (x.neg # y.neg),
                  coeff |-> x.coeff * y.coeff, exp |-> x.exp + y.exp])

SatExp == NumDigits(SatPerBsv) - 1

\* d * 100_000_000 and d / 100_000_000 : a shift of the exponent, then rounding
DecMulSat(d) == DecRound([DecNormalize(d) EXCEPT !.exp = @ + SatExp])
DecDivSat(d) == DecRound([DecNormalize(d) EXCEPT !.exp = @ - SatExp])

\* int(Decimal): truncation toward zero
DecToInt(d) ==
    LET mag == IF d.exp >= 0 THEN d.coeff * 10^(d.exp)
               ELSE d.coeff \div 10^(0 - d.exp)
    IN  IF d.neg THEN 0 - mag ELSE mag

(***************************************************************************)
(* Transactions and fees.  bsvlib is a dependency of the script; the size  *)
(* of a P2PKH transaction and the fee for it follow the fee model of the   *)
(* design (fee = ceil(size * rate)), at the rate the script itself prints  *)
(* (half a satoshi per byte).                                              *)
(***************************************************************************)
TxSize(nIn, nOut, dataLen) ==
    10 + 148 * nIn + 34 * nOut + (IF dataLen > 0 THEN 12 + dataLen ELSE 0)

EstimateFee(size) == (size + FeeRateDen - 1) \div FeeRateDen

RECURSIVE SumValues(_)
SumValues(us) ==
    IF us = {} THEN 0
    ELSE LET u == CHOOSE x \in us : TRUE IN u.value + SumValues(us \ {u})

NoTx == [inputs |-> {}, pay |-> 0, fee |-> 0, change |-> 0, data |-> <<>>, built |-> FALSE]

(***************************************************************************)
(* Inputs: what the user types and what the providers answer.              *)
(***************************************************************************)
Yes == <<"y", "e", "s">>
MaxWords == {<<"m", "a", "x">>, <<"a", "l", "l">>}

AmountInputs ==
    { <<"m", "a", "x">>, <<"A", "L", "L">>,
      <<"a", "b", "c">>, <<"-", "1">>, <<"0">>,
      <<"0", ".", "0", "0", "0", "0", "1">>,
      <<"0", ".", "0", "0", "0", "0", "0", "4">>,
      <<"1", ".", "5">>,
      <<"1", ".", "2", "3", "4", "5", "6", "7", "8", "9">> }

AddressInputs == {"1GoodAddress", "not-an-address"}

DataInputs == {<<>>, <<"h", "i">>}

ConfirmInputs ==
    { Yes, <<"Y", "E", "S">>, <<"Y", "e", "s">>, <<"n", "o">>, <<"y">>,
      <<" ", "y", "e", "s">>, <<>> }

U(i, v) == [id |-> i, value |-> v]

\* the unspent outputs of the address when the wallet is loaded
InitUtxoSets ==
    { {U(1, 500)}, {U(1, 1000)}, {U(1, 1000), U(2, 200000000)} }

Absent == <<"Absent">>
TaalTxid == Rep("a", 64)
WocTxid == Rep("b", 64)
ErrText == <<"e", "r", "r">>

\* what one POST to TAAL can produce: an exception (timeout, connection
\* error), a status other than 200, or a 200 with a body.  `accepted` is
\* whether the network took the transaction.
TaalFailures ==
    { [kind |-> "exception", status |-> 0, shape |-> "none",
       txid |-> Absent, result |-> Absent, text |-> <<>>, accepted |-> FALSE],
      [kind |-> "http", status |-> 500, shape |-> "text",
       txid |-> Absent, result |-> Absent, text |-> ErrText, accepted |-> FALSE] }

TaalRejections ==
    { [kind |-> "http", status |-> 200, shape |-> "dict",
       txid |-> Absent, result |-> Absent, text |-> <<>>, accepted |-> FALSE],
      [kind |-> "http", status |-> 200, shape |-> "dict",
       txid |-> ErrText, result |-> Absent, text |-> <<>>, accepted |-> FALSE],
      [kind |-> "http", status |-> 200, shape |-> "text",
       txid |-> Absent, result |-> Absent, text |-> ErrText, accepted |-> FALSE] }

TaalAcceptances ==
    { [kind |-> "http", status |-> 200, shape |-> "dict",
       txid |-> TaalTxid, result |-> Absent, text |-> <<>>, accepted |-> TRUE],
      [kind |-> "http", status |-> 200, shape |-> "dict",
       txid |-> Absent, result |-> TaalTxid, text |-> <<>>, accepted |-> TRUE],
      [kind |-> "http", status |-> 200, shape |-> "json_str",
       txid |-> Absent, result |-> Absent, text |-> TaalTxid, accepted |-> TRUE] }

WocFailures ==
    { [kind |-> "exception", status |-> 0, shape |-> "none",
       txid |-> Absent, result |-> Absent, text |-> <<>>, accepted |-> FALSE],
      [kind |-> "http", status |-> 400, shape |-> "text",
       txid |-> Absent, result |-> Absent, text |-> ErrText, accepted |-> FALSE] }

WocRejections ==
    { [kind |-> "http", status |-> 200, shape |-> "text",
       txid |-> Absent, result |-> Absent, text |-> ErrText, accepted |-> FALSE] }

WocAcceptances ==
    { [kind |-> "http", status |-> 200, shape |-> "text",
       txid |-> Absent, result |-> Absent,
       text |-> <<"\"">> \o WocTxid \o <<"\"", "\n">>, accepted |-> TRUE] }

\* the exchangerate endpoint: None on failure, or a JSON object
NoData == [ok |-> FALSE, hasRate |-> FALSE, rate |-> <<>>]
RateResponses ==
    { NoData,
      [ok |-> TRUE, hasRate |-> FALSE, rate |-> <<>>],
      [ok |-> TRUE, hasRate |-> TRUE, rate |-> <<"2", "0">>] }

ZeroPrice == <<"0", ".", "0", "0">>

(***************************************************************************)
(* State.                                                                  *)
(***************************************************************************)
VARIABLES
    pc,           \* where the session is: "menu" or a step of an operation
    op,           \* the operation in progress or last run
    ops,          \* menu choices taken so far
    utxos,        \* the address's outputs that are unspent on the network
    spent,        \* outputs consumed by this session's successful broadcasts
    nextId,       \* id of the next output created for the address
    to_address, amount_str, data_string,   \* the arguments of the operation
    snapshot,     \* the unspent outputs the provider returned on refresh
    total_sats,   \* total_sats / bal
    send_sats,
    tx,           \* the transaction create_transaction returned
    confirm,      \* what the user typed at the prompt (before .lower())
    keyIdx,       \* index into TAAL_KEYS of the broadcast loop
    attempts,     \* the POSTs made by the broadcast call in progress
    txid,         \* what broadcast returned
    netlog,       \* the network calls made by the operation, in order
    outcome,      \* the message the operation ended with
    display       \* what show_status printed

vars == <<pc, op, ops, utxos, spent, nextId, to_address, amount_str, data_string,
          snapshot, total_sats, send_sats, tx, confirm, keyIdx, attempts, txid,
          netlog, outcome, display>>

chain == <<utxos, spent, nextId>>
args == <<to_address, amount_str, data_string>>
locals == <<snapshot, total_sats, send_sats, tx, confirm, keyIdx, attempts, txid>>

NoDisplay == [shown |-> FALSE, rateKnown |-> FALSE, price |-> <<>>,
              bal_bsv |-> DecOfInt(0), usd_val |-> DecOfInt(0)]

NoConfirm == <<"?">>

Init ==
    /\ pc = "menu"
    /\ op = "none"
    /\ ops = 0
    /\ utxos \in InitUtxoSets
    /\ spent = {}
    /\ nextId = 10
    /\ to_address = ""
    /\ amount_str = <<>>
    /\ data_string = <<>>
    /\ snapshot = {}
    /\ total_sats = 0
    /\ send_sats = 0
    /\ tx = NoTx
    /\ confirm = NoConfirm
    /\ keyIdx = 1
    /\ attempts = <<>>
    /\ txid = None
    /\ netlog = <<>>
    /\ outcome = "none"
    /\ display = NoDisplay

\* the state of a handler's locals on entry
ResetLocals ==
    /\ snapshot' = {}
    /\ total_sats' = 0
    /\ send_sats' = 0
    /\ tx' = NoTx
    /\ confirm' = NoConfirm
    /\ keyIdx' = 1
    /\ attempts' = <<>>
    /\ txid' = None

\* the handler returns to the menu loop with a message
Finish(msg) ==
    /\ pc' = "menu"
    /\ outcome' = msg

\* bsv_wallet.get_balance(refresh=True): the provider's list of unspent
\* outputs.  The provider may not yet reflect a spend made in this session.
Snapshots == {utxos, utxos \cup spent}

(***************************************************************************)
(* NetworkProvider.get_price and WalletApp.show_status (menu choice 1).    *)
(***************************************************************************)
GetPrice(data) ==
    IF data.ok /\ data.hasRate THEN data.rate ELSE ZeroPrice

ShowStatus ==
    /\ pc = "menu"
    /\ ops < MaxOps
    /\ ops' = ops + 1
    /\ op' = "status"
    /\ pc' = "menu"
    /\ ResetLocals
    /\ \/ \* get_balance raises: "Error fetching balance"
          /\ netlog' = <<"balance">>
          /\ outcome' = "balance_error"
          /\ display' = NoDisplay
       \/ \E snap \in Snapshots, data \in RateResponses :
            LET bal_sats == SumValues(snap)
                bal_bsv  == DecDivSat(DecOfInt(bal_sats))
                price    == GetPrice(data)
                usd_val  == DecMul(bal_bsv, ParseDecimal(price))
            IN  /\ netlog' = <<"balance", "rate">>
                /\ outcome' = "status_shown"
                /\ display' = [shown |-> TRUE,
                               rateKnown |-> (data.ok /\ data.hasRate),
                               price |-> price,
                               bal_bsv |-> bal_bsv,
                               usd_val |-> usd_val]
    /\ UNCHANGED <<chain, args>>

(***************************************************************************)
(* WalletApp.build_and_send (menu choice 2).                               *)
(***************************************************************************)
IsMax(amt) == Lower(amt) \in MaxWords

\* int(Decimal(amount_str) * 100_000_000)
AmountToSats(amt) == DecToInt(DecMulSat(ParseDecimal(amt)))

\* main(), choice "2": the two prompts, then wallet.build_and_send(dest, amt)
MenuSend ==
    /\ pc = "menu"
    /\ ops < MaxOps
    /\ \E dest \in AddressInputs, amt \in AmountInputs :
         /\ to_address' = dest
         /\ amount_str' = amt
    /\ data_string' = <<>>
    /\ ops' = ops + 1
    /\ op' = "send"
    /\ pc' = "bs_balance"
    /\ ResetLocals
    /\ netlog' = <<>>
    /\ outcome' = "none"
    /\ display' = NoDisplay
    /\ UNCHANGED chain

\* total_sats = self.get_balance_sats()
BsGetBalance ==
    /\ pc = "bs_balance"
    /\ netlog' = Append(netlog, "balance")
    /\ \/ /\ Finish("tx_failed")
          /\ UNCHANGED <<snapshot, total_sats>>
       \/ \E snap \in Snapshots :
            /\ snapshot' = snap
            /\ total_sats' = SumValues(snap)
            /\ pc' = "bs_amount"
            /\ UNCHANGED outcome
    /\ UNCHANGED <<op, ops, chain, args, send_sats, tx, confirm, keyIdx, attempts,
                   txid, display>>

\* the wallet's own funds check: if send_sats > total_sats
InsufficientFunds(sats, total) == sats > total

\* lines 219-232: the amount in satoshis and the funds checks
BsAmount ==
    /\ pc = "bs_amount"
    /\ IF IsMax(amount_str)
       THEN LET sats == total_sats - fee_estimate
            IN  /\ send_sats' = sats
                /\ IF sats <= 0 THEN Finish("balance_too_low")
                   ELSE IF InsufficientFunds(sats, total_sats)
                        THEN Finish("insufficient_funds")
                        ELSE pc' = "bs_build" /\ UNCHANGED outcome
       ELSE IF ~ParseDecimal(amount_str).ok
            THEN \* decimal.InvalidOperation, caught by `except Exception`
                 /\ Finish("tx_failed")
                 /\ UNCHANGED send_sats
            ELSE LET sats == AmountToSats(amount_str)
                 IN  /\ send_sats' = sats
                     /\ IF InsufficientFunds(sats, total_sats)
                        THEN Finish("insufficient_funds")
                        ELSE pc' = "bs_build" /\ UNCHANGED outcome
    /\ UNCHANGED <<op, ops, chain, args, snapshot, total_sats, tx, confirm, keyIdx,
                   attempts, txid, netlog, display>>

\* bsv_wallet.create_transaction(outputs=[(to_address, send_sats)], fee=...):
\* the transactions the library can return.  It spends outputs of the
\* snapshot that cover the payment and the fee; the rest is change.
PaymentFee(fixedFee, nIn) ==
    IF fixedFee THEN fee_estimate ELSE EstimateFee(TxSize(nIn, 2, 0))

PaymentTxs(snap, dest, sats, fixedFee) ==
    IF dest # "1GoodAddress" \/ sats <= 0 THEN {}
    ELSE { [inputs |-> ins, pay |-> sats,
            fee |-> PaymentFee(fixedFee, Cardinality(ins)),
            change |-> SumValues(ins) - sats - PaymentFee(fixedFee, Cardinality(ins)),
            data |-> <<>>, built |-> TRUE] :
           ins \in { i \in SUBSET snap :
                       /\ i # {}
                       /\ SumValues(i) >= sats + PaymentFee(fixedFee, Cardinality(i)) } }

\* lines 235-240: create the transaction; any exception ends the operation
BsBuild ==
    /\ pc = "bs_build"
    /\ \/ /\ Finish("tx_failed")
          /\ UNCHANGED tx
       \/ \E t \in PaymentTxs(snapshot, to_address, send_sats,
                              IsMax(amount_str)) :
            /\ tx' = t
            /\ pc' = "bs_confirm"
            /\ UNCHANGED outcome
    /\ UNCHANGED <<op, ops, chain, args, snapshot, total_sats, send_sats, confirm,
                   keyIdx, attempts, txid, netlog, display>>

\* a variant that takes any answer starting with y as consent
ConfirmIsYes_Initial(answer) == answer # <<>> /\ LowerChar(answer[1]) = "y"

\* confirm = input(...).lower(); if confirm == "yes"
ConfirmIsYes(answer) == Lower(answer) = Yes

Confirm(at) ==
    /\ pc = at
    /\ \E answer \in ConfirmInputs :
         /\ confirm' = answer
         /\ IF ConfirmIsYes(answer)
            THEN pc' = "bc_taal" /\ UNCHANGED outcome
            ELSE Finish("cancelled")
    /\ UNCHANGED <<op, ops, chain, args, snapshot, total_sats, send_sats, tx,
                   keyIdx, attempts, txid, netlog, display>>

\* lines 248-258
BsConfirm == Confirm("bs_confirm")

(***************************************************************************)
(* NetworkProvider.broadcast.                                              *)
(***************************************************************************)
\* lines 101-105: the id extracted from a TAAL response with status 200
TaalExtract(resp) ==
    IF resp.shape = "dict"
    THEN IF resp.txid # Absent THEN resp.txid
         ELSE IF resp.result # Absent THEN resp.result ELSE None
    ELSE resp.text

\* a variant that returns the body as received
WocExtract_Raw(resp) == resp.text

\* line 113: r.text.replace('"', '').strip()
WocExtract(resp) == Strip(RemoveQuotes(resp.text))

\* line 100: if r.status_code == 200
TaalReturns(resp) == resp.kind = "http" /\ resp.status = 200

\* line 112: r.raise_for_status() does not raise
WocReturns(resp) == resp.kind = "http" /\ resp.status < 400

\* the network takes the transaction: its inputs are spent, its change is a
\* new output of the address
Accept(t) ==
    /\ utxos' = (utxos \ t.inputs) \cup
                  (IF t.change > 0 THEN {U(nextId, t.change)} ELSE {})
    /\ spent' = spent \cup t.inputs
    /\ nextId' = IF t.change > 0 THEN nextId + 1 ELSE nextId

\* a provider can accept only a transaction whose inputs are all unspent
Spendable(t) == t.inputs \subseteq utxos

\* the TAAL key tried after key k, or 0 when the keys are exhausted
NextKey(k) == IF k < NumTaalKeys THEN k + 1 ELSE 0

\* lines 96-106: one iteration of `for key in TAAL_KEYS`
BcTaal ==
    /\ pc = "bc_taal"
    /\ \E resp \in TaalFailures \cup TaalRejections \cup
                     (IF Spendable(tx) THEN TaalAcceptances ELSE {}) :
         /\ attempts' = Append(attempts,
                               [provider |-> "taal", key |-> keyIdx, resp |-> resp])
         /\ IF TaalReturns(resp)
            THEN /\ txid' = TaalExtract(resp)
                 /\ pc' = "report"
                 /\ UNCHANGED keyIdx
                 /\ IF resp.accepted THEN Accept(tx) ELSE UNCHANGED chain
            ELSE /\ IF NextKey(keyIdx) # 0
                    THEN keyIdx' = NextKey(keyIdx) /\ UNCHANGED pc
                    ELSE pc' = "bc_woc" /\ UNCHANGED keyIdx
                 /\ UNCHANGED <<txid, chain>>
    /\ netlog' = Append(netlog, "taal")
    /\ UNCHANGED <<op, ops, args, snapshot, total_sats, send_sats, tx, confirm,
                   outcome, display>>

\* lines 108-116: the fallback to WhatsOnChain
BcWoc ==
    /\ pc = "bc_woc"
    /\ \E resp \in WocFailures \cup WocRejections \cup
                     (IF Spendable(tx) THEN WocAcceptances ELSE {}) :
         /\ attempts' = Append(attempts,
                               [provider |-> "woc", key |-> 0, resp |-> resp])
         /\ txid' = IF WocReturns(resp) THEN WocExtract(resp) ELSE None
         /\ IF resp.accepted THEN Accept(tx) ELSE UNCHANGED chain
    /\ pc' = "report"
    /\ netlog' = Append(netlog, "woc")
    /\ UNCHANGED <<op, ops, args, snapshot, total_sats, send_sats, tx, confirm,
                   keyIdx, outcome, display>>

\* a variant that only rejects the empty string
TxidOk_NonEmpty(t) == t # <<>>

\* if txid and len(txid) > 20
TxidOk(t) == Truthy(t) /\ Len(t) > MinTxidLen

Report(who) ==
    /\ pc = "report"
    /\ op = who
    /\ IF TxidOk(txid) THEN Finish("success") ELSE Finish("broadcast_failed")
    /\ UNCHANGED <<op, ops, chain, args, locals, netlog, display>>

\* lines 251-256
BsReport == Report("send")

(***************************************************************************)
(* WalletApp.send_op_return (menu choice 3).                               *)
(***************************************************************************)
\* main(), choice "3": data = input(...).strip(); if data: send_op_return(data)
MenuData ==
    /\ pc = "menu"
    /\ ops < MaxOps
    /\ \E data \in DataInputs :
         /\ data_string' = data
         /\ IF data = <<>>
            THEN pc' = "menu" /\ outcome' = "skipped"
            ELSE pc' = "op_balance" /\ outcome' = "none"
    /\ to_address' = ""
    /\ amount_str' = <<>>
    /\ ops' = ops + 1
    /\ op' = "data"
    /\ ResetLocals
    /\ netlog' = <<>>
    /\ display' = NoDisplay
    /\ UNCHANGED chain

\* lines 176-179: bal = self.get_balance_sats(); if bal < 1000
OpGetBalance ==
    /\ pc = "op_balance"
    /\ netlog' = Append(netlog, "balance")
    /\ \/ /\ Finish("data_error")
          /\ UNCHANGED <<snapshot, total_sats>>
       \/ \E snap \in Snapshots :
            /\ snapshot' = snap
            /\ total_sats' = SumValues(snap)
            /\ IF SumValues(snap) < MinDataBalance
               THEN Finish("insufficient_funds")
               ELSE pc' = "op_build" /\ UNCHANGED outcome
    /\ UNCHANGED <<op, ops, chain, args, send_sats, tx, confirm, keyIdx, attempts,
                   txid, display>>

\* create_transaction(outputs=[], pushdatas=[data_string], combine=True):
\* every output of the snapshot is spent; the data output carries no value
DataTxs(snap, data) ==
    LET fee == EstimateFee(TxSize(Cardinality(snap), 1, Len(data)))
    IN  IF snap = {} \/ SumValues(snap) < fee THEN {}
        ELSE { [inputs |-> snap, pay |-> 0, fee |-> fee,
                change |-> SumValues(snap) - fee, data |-> data, built |-> TRUE] }

\* lines 184-190
OpBuild ==
    /\ pc = "op_build"
    /\ \/ /\ Finish("data_error")
          /\ UNCHANGED tx
       \/ \E t \in DataTxs(snapshot, data_string) :
            /\ tx' = t
            /\ pc' = "op_confirm"
            /\ UNCHANGED outcome
    /\ UNCHANGED <<op, ops, chain, args, snapshot, total_sats, send_sats, confirm,
                   keyIdx, attempts, txid, netlog, display>>

\* lines 198-208
OpConfirm == Confirm("op_confirm")

\* lines 201-206
OpReport == Report("data")

Next ==
    \/ ShowStatus
    \/ MenuSend
    \/ BsGetBalance
    \/ BsAmount
    \/ BsBuild
    \/ BsConfirm
    \/ MenuData
    \/ OpGetBalance
    \/ OpBuild
    \/ OpConfirm
    \/ BcTaal
    \/ BcWoc
    \/ BsReport
    \/ OpReport

Spec == Init /\ [][Next]_vars

(***************************************************************************)
(* Properties.                                                             *)
(***************************************************************************)
Submissions == {i \in DOMAIN netlog : netlog[i] \in {"taal", "woc"}}
LastAttempt == attempts[Len(attempts)]
BroadcastReturned == pc = "report" \/ (pc = "menu" /\ attempts # <<>>)

\* the provider and key of the i-th attempt of a call, in priority order
Priority(i) ==
    IF i <= NumTaalKeys THEN [provider |-> "taal", key |-> i]
    ELSE [provider |-> "woc", key |-> 0]

HttpSuccess(a) == a.resp.kind = "http" /\ a.resp.status = 200
AttemptFailed(a) == ~HttpSuccess(a)
AllAttemptsFailed == attempts # <<>> /\ \A i \in DOMAIN attempts : AttemptFailed(attempts[i])

\* C1: within one broadcast call the attempts follow the fixed priority order
\* (TAAL, then WhatsOnChain), no attempt follows an attempt that succeeded,
\* and when earlier attempts failed and a later provider accepted the
\* transaction the call returns the id that provider answered with.
C1_OrderedFallback ==
    /\ \A i \in DOMAIN attempts :
         /\ attempts[i].provider = Priority(i).provider
         /\ attempts[i].key = Priority(i).key
    /\ \A i \in DOMAIN attempts : HttpSuccess(attempts[i]) => i = Len(attempts)
    /\ (BroadcastReturned /\ LastAttempt.resp.accepted) =>
         txid = (IF LastAttempt.provider = "taal" THEN TaalTxid ELSE WocTxid)

\* C1 witness: both TAAL keys failed, WhatsOnChain accepted, and the call
\* returned the WhatsOnChain id.
C1_Witness ==
    /\ pc = "report"
    /\ Len(attempts) = NumTaalKeys + 1
    /\ AttemptFailed(attempts[1])
    /\ LastAttempt.provider = "woc"
    /\ LastAttempt.resp.accepted
    /\ txid = WocTxid

ExtractedId(a) ==
    IF a.provider = "taal" THEN TaalExtract(a.resp) ELSE WocExtract(a.resp)
ShortIdResponse(a) ==
    /\ HttpSuccess(a)
    /\ (ExtractedId(a) = None \/ Len(ExtractedId(a)) <= MinTxidLen)

\* C2: a response whose extracted id is shorter than the minimum length is a
\* failure of that attempt: the call goes on to the next provider as after
\* any other failure, and the operation never reports it as a success.
C2_ShortIdIsFailure ==
    /\ outcome = "success" => (txid # None /\ Len(txid) > MinTxidLen)
    /\ BroadcastReturned =>
         \A i \in DOMAIN attempts :
            ShortIdResponse(attempts[i]) =>
               (i < Len(attempts) \/ i = NumTaalKeys + 1)

\* C3 as stated: when every attempt of a call failed, no provider was tried
\* twice, the call returned no id and the caller reports "Broadcast failed".
C3_NoProviderRetried ==
    (BroadcastReturned /\ AllAttemptsFailed) =>
       /\ \A i, j \in DOMAIN attempts :
            attempts[i].provider = attempts[j].provider => i = j
       /\ txid = None
       /\ pc = "menu" => outcome = "broadcast_failed"

\* C3 amended: a call never makes more than one attempt per TAAL key plus one
\* to WhatsOnChain and never repeats a provider-and-key pair; when every
\* attempt failed it made exactly those attempts, returned no id, and the
\* caller reports "Broadcast failed".
C3_BoundedSingleFailure ==
    /\ Len(attempts) <= NumTaalKeys + 1
    /\ \A i, j \in DOMAIN attempts :
         (attempts[i].provider = attempts[j].provider /\
          attempts[i].key = attempts[j].key) => i = j
    /\ (BroadcastReturned /\ AllAttemptsFailed) =>
         /\ Len(attempts) = NumTaalKeys + 1
         /\ txid = None
         /\ pc = "menu" => outcome = "broadcast_failed"

\* C3 witness: all three attempts failed and the caller reported the failure.
C3_Witness ==
    /\ pc = "menu"
    /\ AllAttemptsFailed
    /\ Len(attempts) = NumTaalKeys + 1
    /\ outcome = "broadcast_failed"

\* C4: for a MAX request that reaches the build, the balance equals the
\* amount sent plus the fee estimated for the size of the transaction that
\* spends every input into one output, and the built transaction spends
\* every input and has no change.
C4_MaxSendsAllButSizeFee ==
    /\ (op = "send" /\ IsMax(amount_str) /\ pc = "bs_build") =>
          total_sats = send_sats + EstimateFee(TxSize(Cardinality(snapshot), 1, 0))
    /\ (op = "send" /\ IsMax(amount_str) /\ tx.built) =>
          (tx.inputs = snapshot /\ tx.change = 0)

C6_SpentNotReused ==
    pc \in {"bs_amount", "bs_build", "bs_confirm", "op_build", "op_confirm"} =>
       /\ snapshot \cap spent = {}
       /\ tx.inputs \cap spent = {}

MalformedAmount(amt) ==
    /\ ~IsMax(amt)
    /\ \/ ~ParseDecimal(amt).ok
       \/ ParseDecimal(amt).neg
       \/ ParseDecimal(amt).coeff = 0

\* C7: while a malformed request (unparseable or non-positive amount,
\* malformed destination, empty data) is being handled, no network call has
\* been made by the operation.
C7_RejectedBeforeNetwork ==
    /\ (op = "send" /\ (MalformedAmount(amount_str) \/ to_address # "1GoodAddress")) =>
          netlog = <<>>
    /\ (op = "data" /\ data_string = <<>>) => netlog = <<>>

\* C8: after a failed exchange-rate query show_status does not show a price
\* of zero nor a USD value computed from it.
C8_RateUnavailableNotZero ==
    (display.shown /\ ~display.rateKnown) =>
       (display.price # ZeroPrice /\ ParseDecimal(display.price).coeff # 0)

PreBroadcastOutcomes ==
    {"cancelled", "insufficient_funds", "balance_too_low", "tx_failed",
     "data_error", "skipped"}

\* C9: a transaction is submitted to a provider only after it was built and
\* the user's answer, lower-cased, was "yes" in the same operation; an
\* operation that ended cancelled, for lack of funds or on an error made no
\* submission.
C9_SubmitOnlyAfterYes ==
    /\ (Submissions # {} \/ attempts # <<>> \/ pc \in {"bc_taal", "bc_woc", "report"}) =>
          /\ op \in {"send", "data"}
          /\ tx.built
          /\ Lower(confirm) = Yes
    /\ outcome \in PreBroadcastOutcomes => (Submissions = {} /\ attempts = <<>>)
    /\ Len(attempts) = Cardinality(Submissions)

\* C9 witness: the answer "YES" led to a submission of the built transaction.
C9_Witness ==
    /\ pc = "report"
    /\ confirm = <<"Y", "E", "S">>
    /\ Submissions # {}
    /\ tx.built

\* the entered amount times 100,000,000, exactly (at most 8 fractional digits)
ExactSats(amt) ==
    LET d == ParseDecimal(amt)
    IN  (IF d.neg THEN 0 - 1 ELSE 1) * d.coeff * 10^(SatExp + d.exp)

\* C10: the payment output of a non-MAX send carries exactly the entered
\* amount times 100,000,000 when the amount has at most 8 fractional digits.
C10_ExactSatoshis ==
    (op = "send" /\ ~IsMax(amount_str) /\ tx.built /\ ParseDecimal(amount_str).ok
        /\ 0 - ParseDecimal(amount_str).exp <= SatExp) =>
       tx.pay = ExactSats(amount_str)

====
